---------------------------- MODULE Spec2Model ----------------------------
(***************************************************************************)
(* Works Mobile upload clients (send_image.py, send_video.py).             *)
(*                                                                         *)
(* Python bytes and str values are sequences of integers (byte values,     *)
(* code points).  A Python value whose type matters is a record with a     *)
(* pytype field; a dict is a record whose fields are the dict's keys.      *)
(* A float obtained as a quotient of two integers is the reduced fraction  *)
(* [num, den]; 0.0 is [num |-> 0, den |-> 1].                              *)
(***************************************************************************)
EXTENDS Integers, Sequences, FiniteSets

VARIABLES
    kind,           \* "image" (send_image.py) or "video" (send_video.py)
    pc,             \* position of the run
    exists,         \* os.path.exists(file_path)
    file_data,      \* the payload: [pytype |-> "bytes" | "str", v |-> ...]
    pil,            \* what PIL's Image.open makes of the decoded payload
    resource_info,  \* main: the value issue_resource_path returned
    resource_path,  \* the resource path handed to the storage calls
    calls,          \* the network requests issued so far, in order
    failure,        \* stage whose network call raised, or "none"
    status,         \* main: the value upload_file_options returned
    uploader,       \* upload_file: the ImageUploader / VideoUploader
    response,       \* upload_file: the response of the storage POST
    result,         \* the value upload_file returned
    outcome         \* "running", "returned", or the exception that escaped

vars == <<kind, pc, exists, file_data, pil, resource_info, resource_path,
          calls, failure, status, uploader, response, result, outcome>>

(***************************************************************************)
(* Bounds of the model.                                                    *)
(***************************************************************************)
\* longest run of bytes put in front of the mvhd box of a video payload
MaxPrefix == 2
\* most bytes cut from the end of a video payload
MaxCut == 9
\* most bytes of an image payload
MaxImageLen == 3

None == [pytype |-> "NoneType"]
NotADict == [pytype |-> "list"]
IsDict(v) == "pytype" \notin DOMAIN v

Min(a, b) == IF a < b THEN a ELSE b

\* data[a:b] for 0 <= a, 0 <= b
Slice(data, a, b) ==
    IF a >= Min(b, Len(data)) THEN <<>> ELSE SubSeq(data, a + 1, Min(b, Len(data)))

\* data.find(sub): the lowest 0-based index where sub occurs, or -1
Find(data, sub) ==
    LET hits == {i \in 0..(Len(data) - Len(sub)) : Slice(data, i, i + Len(sub)) = sub}
    IN  IF hits = {} THEN -1 ELSE CHOOSE i \in hits : \A j \in hits : i <= j

\* data.rfind(sub): the highest 0-based index where sub occurs, or -1
RFind(data, sub) ==
    LET hits == {i \in 0..(Len(data) - Len(sub)) : Slice(data, i, i + Len(sub)) = sub}
    IN  IF hits = {} THEN -1 ELSE CHOOSE i \in hits : \A j \in hits : j <= i

RECURSIVE Join(_, _)
\* sep.join(parts)
Join(parts, sep) ==
    IF parts = <<>> THEN <<>>
    ELSE IF Len(parts) = 1 THEN parts[1]
    ELSE parts[1] \o sep \o Join(Tail(parts), sep)

RECURSIVE Utf8Encode(_)
\* s.encode("utf-8"), for code points below 0x800
Utf8Encode(s) ==
    IF s = <<>> THEN <<>>
    ELSE (IF s[1] < 128 THEN <<s[1]>>
          ELSE <<192 + (s[1] \div 64), 128 + (s[1] % 64)>>) \o Utf8Encode(Tail(s))

RECURSIVE IntToStr(_)
\* str(n) for n >= 0
IntToStr(n) ==
    IF n < 10 THEN <<48 + n>> ELSE IntToStr(n \div 10) \o <<48 + (n % 10)>>

(***************************************************************************)
(* base64.b64encode / base64.b64decode (binascii, non-strict mode).        *)
(***************************************************************************)
B64Alphabet ==
    <<65, 66, 67, 68, 69, 70, 71, 72, 73, 74, 75, 76, 77, 78, 79, 80, 81, 82,
      83, 84, 85, 86, 87, 88, 89, 90, 97, 98, 99, 100, 101, 102, 103, 104,
      105, 106, 107, 108, 109, 110, 111, 112, 113, 114, 115, 116, 117, 118,
      119, 120, 121, 122, 48, 49, 50, 51, 52, 53, 54, 55, 56, 57, 43, 47>>
\* "="
B64Pad == <<61>>[1]

RECURSIVE B64Encode(_)
B64Encode(b) ==
    LET A == B64Alphabet IN
    IF b = <<>> THEN <<>>
    ELSE IF Len(b) = 1 THEN
        <<A[(b[1] \div 4) + 1], A[(b[1] % 4) * 16 + 1], B64Pad, B64Pad>>
    ELSE IF Len(b) = 2 THEN
        <<A[(b[1] \div 4) + 1], A[(b[1] % 4) * 16 + (b[2] \div 16) + 1],
          A[(b[2] % 16) * 4 + 1], B64Pad>>
    ELSE
        <<A[(b[1] \div 4) + 1], A[(b[1] % 4) * 16 + (b[2] \div 16) + 1],
          A[(b[2] % 16) * 4 + (b[3] \div 64) + 1], A[(b[3] % 64) + 1]>>
        \o B64Encode(SubSeq(b, 4, Len(b)))

\* the 6-bit value of a base64 character, 64 for any other character
B64Value(c) ==
    IF \E i \in 1..64 : B64Alphabet[i] = c
    THEN (CHOOSE i \in 1..64 : B64Alphabet[i] = c) - 1
    ELSE 64

RECURSIVE B64DecodeFrom(_, _, _, _, _, _)
\* the decoding loop: characters outside the alphabet are skipped, a
\* complete run of padding ends the input, leftover characters are an error
B64DecodeFrom(s, i, quad_pos, pads, leftchar, out) ==
    IF i > Len(s) THEN
        IF quad_pos # 0 THEN [ok |-> FALSE] ELSE [ok |-> TRUE, v |-> out]
    ELSE IF s[i] = B64Pad THEN
        IF quad_pos >= 2 /\ quad_pos + pads + 1 >= 4
        THEN [ok |-> TRUE, v |-> out]
        ELSE B64DecodeFrom(s, i + 1, quad_pos,
                           IF quad_pos >= 2 THEN pads + 1 ELSE pads, leftchar, out)
    ELSE IF B64Value(s[i]) = 64 THEN
        B64DecodeFrom(s, i + 1, quad_pos, pads, leftchar, out)
    ELSE LET c == B64Value(s[i]) IN
        CASE quad_pos = 0 -> B64DecodeFrom(s, i + 1, 1, 0, c, out)
          [] quad_pos = 1 ->
                B64DecodeFrom(s, i + 1, 2, 0, c % 16,
                              Append(out, leftchar * 4 + (c \div 16)))
          [] quad_pos = 2 ->
                B64DecodeFrom(s, i + 1, 3, 0, c % 4,
                              Append(out, leftchar * 16 + (c \div 4)))
          [] quad_pos = 3 ->
                B64DecodeFrom(s, i + 1, 0, 0, 0, Append(out, leftchar * 64 + c))

\* base64.b64decode(s): [ok |-> TRUE, v |-> bytes], or ok FALSE for binascii.Error
B64Decode(s) == B64DecodeFrom(s, 1, 0, 0, 0, <<>>)

(***************************************************************************)
(* VideoUploader._get_mp4_duration                                         *)
(***************************************************************************)
Mvhd == <<109, 118, 104, 100>>     \* b"mvhd"

Zero == [num |-> 0, den |-> 1]     \* 0.0

RECURSIVE GCD(_, _)
GCD(a, b) == IF b = 0 THEN a ELSE GCD(b, a % b)

\* duration / time_scale for time_scale # 0
Quotient(d, t) == [num |-> d \div GCD(d, t), den |-> t \div GCD(d, t)]

\* struct.unpack(">I", b)[0]: ok FALSE for struct.error when b is not 4 bytes
StructUnpackI(b) ==
    IF Len(b) # 4 THEN [ok |-> FALSE]
    ELSE [ok |-> TRUE,
          v |-> ((b[1] * 256 + b[2]) * 256 + b[3]) * 256 + b[4]]

\* reads the two fields 4 bytes too early
GetMp4DurationMut(data) ==
    LET mvhd_pos == Find(data, Mvhd) IN
    IF mvhd_pos = -1 THEN Zero
    ELSE LET time_scale == StructUnpackI(Slice(data, mvhd_pos + 12, mvhd_pos + 16))
             duration == StructUnpackI(Slice(data, mvhd_pos + 16, mvhd_pos + 20))
         IN  IF ~time_scale.ok \/ ~duration.ok THEN Zero
             ELSE IF time_scale.v = 0 THEN Zero
             ELSE Quotient(duration.v, time_scale.v)

GetMp4Duration(data) ==
    LET mvhd_pos == Find(data, Mvhd) IN
    IF mvhd_pos = -1 THEN Zero
    ELSE LET time_scale == StructUnpackI(Slice(data, mvhd_pos + 16, mvhd_pos + 20))
             duration == StructUnpackI(Slice(data, mvhd_pos + 20, mvhd_pos + 24))
         IN  IF ~time_scale.ok \/ ~duration.ok THEN Zero    \* struct.error caught
             ELSE IF time_scale.v = 0 THEN Zero             \* ZeroDivisionError caught
             ELSE Quotient(duration.v, time_scale.v)

(***************************************************************************)
(* Texts of the two clients.                                               *)
(***************************************************************************)
Slash == <<47>>         \* "/"
CRLF == <<13, 10>>      \* b"\r\n"
Dashes == <<45, 45>>    \* "--"
Quote == <<34>>         \* '"'

\* os.path.basename(file_path): "image.png" / "video.mp4"
FileName(k) ==
    IF k = "image" THEN <<105, 109, 97, 103, 101, 46, 112, 110, 103>>
    ELSE <<118, 105, 100, 101, 111, 46, 109, 112, 52>>

\* "----WebKitFormBoundaryrdK6G1RVu5s3MxSA" / "----WebKitFormBoundaryIDpMEPWWgRoczkxm"
Boundary(k) ==
    IF k = "image"
    THEN <<45, 45, 45, 45, 87, 101, 98, 75, 105, 116, 70, 111, 114, 109, 66,
           111, 117, 110, 100, 97, 114, 121, 114, 100, 75, 54, 71, 49, 82, 86,
           117, 53, 115, 51, 77, 120, 83, 65>>
    ELSE <<45, 45, 45, 45, 87, 101, 98, 75, 105, 116, 70, 111, 114, 109, 66,
           111, 117, 110, 100, 97, 114, 121, 73, 68, 112, 77, 69, 80, 87, 87,
           103, 82, 111, 99, 122, 107, 120, 109>>

\* "multipart/form-data; boundary="
MultipartPrefix ==
    <<109, 117, 108, 116, 105, 112, 97, 114, 116, 47, 102, 111, 114, 109, 45,
      100, 97, 116, 97, 59, 32, 98, 111, 117, 110, 100, 97, 114, 121, 61>>

\* "Content-Disposition: form-data; " 'name="file"; ' 'filename="'
DispositionPrefix ==
    <<67, 111, 110, 116, 101, 110, 116, 45, 68, 105, 115, 112, 111, 115, 105,
      116, 105, 111, 110, 58, 32, 102, 111, 114, 109, 45, 100, 97, 116, 97,
      59, 32>>
    \o <<110, 97, 109, 101, 61, 34, 102, 105, 108, 101, 34, 59, 32>>
    \o <<102, 105, 108, 101, 110, 97, 109, 101, 61, 34>>

\* "Content-Type: image/png" / "Content-Type: video/mp4"
PartContentType(k) ==
    IF k = "image"
    THEN <<67, 111, 110, 116, 101, 110, 116, 45, 84, 121, 112, 101, 58, 32,
           105, 109, 97, 103, 101, 47, 112, 110, 103>>
    ELSE <<67, 111, 110, 116, 101, 110, 116, 45, 84, 121, 112, 101, 58, 32,
           118, 105, 100, 101, 111, 47, 109, 112, 52>>

\* msgType of the path-issuance body and x-type of the upload: 11 / 14
MsgType(k) == IF k = "image" THEN 11 ELSE 14

\* keeps the directory part: the whole path
BasenameMut(p) == p
\* os.path.basename(p)
Basename(p) == Slice(p, RFind(p, Slash) + 1, Len(p))

(***************************************************************************)
(* The uploader objects.                                                   *)
(***************************************************************************)
\* ImageUploader.__init__ / VideoUploader.__init__: a str is base64-decoded
Decoded(fd) ==
    IF fd.pytype = "str" THEN B64Decode(fd.v) ELSE [ok |-> TRUE, v |-> fd.v]

Uploader(k, bytes) ==
    IF k = "image"
    THEN [file_data |-> bytes, file_size |-> Len(bytes)]
    ELSE [file_data |-> bytes, file_size |-> Len(bytes),
          duration |-> GetMp4Duration(bytes)]

\* ImageUploader.dimensions: (0, 0) when Image.open failed, else image.size
Dimensions(p) == IF ~p.opened THEN <<0, 0>> ELSE p.size

\* checks the width only
RejectedMut(k, up, p) ==
    \/ up.file_size = 0
    \/ k = "image" /\ Dimensions(p)[1] = 0
\* the early returns of upload_file
Rejected(k, up, p) ==
    \/ up.file_size = 0
    \/ k = "image" /\ (Dimensions(p)[1] = 0 \/ Dimensions(p)[2] = 0)

(***************************************************************************)
(* The requests.                                                           *)
(***************************************************************************)
\* takes the length of the base64 text for the size
IssueDataMut(k, filename, fd) ==
    IF k = "image"
    THEN [serviceId |-> "works", filename |-> filename,
          filesize |-> Len(fd), msgType |-> MsgType(k),
          channelType |-> 10, fileData |-> fd]
    ELSE [serviceId |-> "works", filename |-> filename,
          filesize |-> Len(fd), msgType |-> MsgType(k),
          channelType |-> 10]
\* the JSON body of issue_resource_path; fd is the base64 text
IssueData(k, filename, fd) ==
    IF k = "image"
    THEN [serviceId |-> "works", filename |-> filename,
          filesize |-> Len(B64Decode(fd).v), msgType |-> MsgType(k),
          channelType |-> 10, fileData |-> fd]
    ELSE [serviceId |-> "works", filename |-> filename,
          filesize |-> Len(B64Decode(fd).v), msgType |-> MsgType(k),
          channelType |-> 10]

\* leaves out the closing boundary line
FormDataMut(k, path, bytes) ==
    Join(<<Utf8Encode(Dashes \o Boundary(k)),
           Utf8Encode(DispositionPrefix \o Basename(path) \o Quote),
           Utf8Encode(PartContentType(k)),
           Utf8Encode(<<>>),
           bytes>>, CRLF)
\* the multipart body of upload_file
FormData(k, path, bytes) ==
    Join(<<Utf8Encode(Dashes \o Boundary(k)),
           Utf8Encode(DispositionPrefix \o Basename(path) \o Quote),
           Utf8Encode(PartContentType(k)),
           Utf8Encode(<<>>),
           bytes,
           Utf8Encode(Dashes \o Boundary(k) \o Dashes)>>, CRLF)

\* the extras dict that x-extras carries as JSON
Extras(k, path, up, p) ==
    IF k = "image"
    THEN [filesize |-> up.file_size, filename |-> Basename(path),
          resourcepath |-> path,
          width |-> Dimensions(p)[1], height |-> Dimensions(p)[2]]
    ELSE [filesize |-> up.file_size, filename |-> Basename(path),
          resourcepath |-> path, recordtime |-> up.duration]

\* the storage POST of upload_file
UploadRequest(k, path, up, p) ==
    [op |-> "post", url |-> path,
     headers |-> [ContentType |-> MultipartPrefix \o Boundary(k),
                  x_resourcepath |-> path,
                  x_type |-> IntToStr(MsgType(k)),
                  x_extras |-> Extras(k, path, up, p),
                  ContentLength |-> IntToStr(Len(FormData(k, path, up.file_data)))],
     data |-> FormData(k, path, up.file_data)]

\* sends the request again
StoragePostMut(log, request) == Append(Append(log, request), request)
\* requests.post of upload_file: one request, no retry
StoragePost(log, request) == Append(log, request)

(***************************************************************************)
(* The responses.                                                          *)
(***************************************************************************)
\* response.json() of the bodies the storage server is modelled to send
JsonLoads(text) ==
    CASE text = "{\"code\": 200}" -> [ok |-> TRUE, value |-> [code |-> 200]]
      [] text = "{\"code\": 416, \"message\": \"Filesize must be greater than 0\"}" ->
            [ok |-> TRUE,
             value |-> [code |-> 416, message |-> "Filesize must be greater than 0"]]
      [] OTHER -> [ok |-> FALSE]

\* a body that is not JSON is reported as a local failure
UploadResultMut(r) ==
    IF JsonLoads(r.text).ok THEN JsonLoads(r.text).value ELSE [code |-> -1]
\* the value upload_file returns for a response
UploadResult(r) ==
    IF JsonLoads(r.text).ok THEN JsonLoads(r.text).value
    ELSE [code |-> r.status_code]

\* goes on whatever the code
PathAcceptedMut(info) == TRUE
\* resource_info.get("code") == 200
PathAccepted(info) == "code" \in DOMAIN info /\ info.code = 200

(***************************************************************************)
(* The inputs: payloads, PIL's reading of them, and the servers' answers.  *)
(***************************************************************************)
RECURSIVE Repeat(_, _)
Repeat(b, n) == IF n = 0 THEN <<>> ELSE <<b>> \o Repeat(b, n - 1)

RECURSIVE ByteStrings(_, _)
\* the byte strings of length n over the set bs
ByteStrings(bs, n) ==
    IF n = 0 THEN {<<>>}
    ELSE {<<b>> \o t : b \in bs, t \in ByteStrings(bs, n - 1)}

\* image payloads: b"", and short strings over 0x89 and "P"
ImagePayloads == UNION {ByteStrings({137, 80}, n) : n \in 0..MaxImageLen}

\* what Image.open can make of a payload: nothing of an empty one
PilReadings(bytes) ==
    IF bytes = <<>> THEN {[opened |-> FALSE]}
    ELSE {[opened |-> FALSE]}
         \cup {[opened |-> TRUE, size |-> sz] : sz \in {<<10, 10>>, <<0, 10>>, <<10, 0>>}}

\* the big-endian bytes of an unsigned 32-bit value
BE32(n) == <<n \div 16777216, (n \div 65536) % 256, (n \div 256) % 256, n % 256>>

\* an mvhd box up to its duration field: marker, version and flags, creation
\* time, modification time, timescale, duration
MvhdBox(timescale, units) ==
    Mvhd \o <<0, 0, 0, 0>> \o <<0, 0, 0, 1>> \o <<0, 0, 0, 2>>
         \o BE32(timescale) \o BE32(units)

TimeScales == {0, 1, 1000}
DurationUnits == {0, 2500}

\* video payloads: b"", payloads without the marker, boxes behind a run of
\* "m" bytes and cut short at the end, and a box whose filler holds a
\* second marker
VideoPayloads ==
    {<<>>, <<109, 118, 104>>, Repeat(0, 30)}
    \cup {Slice(Repeat(109, p) \o MvhdBox(t, d), 0, p + 24 - c) :
            p \in 0..MaxPrefix, t \in TimeScales, d \in DurationUnits, c \in 0..MaxCut}
    \cup {Mvhd \o <<0, 0, 0, 0>> \o MvhdBox(1000, 2500)}

Payloads(k) == IF k = "image" THEN ImagePayloads ELSE VideoPayloads

\* "/abc", "/r/<filename>", "/up/", "/<e acute>.png"
ResourcePaths(k) ==
    {<<47, 97, 98, 99>>, <<47, 114, 47>> \o FileName(k), <<47, 117, 112, 47>>,
     <<47, 233, 46, 112, 110, 103>>}

TransportErrors == {"ConnectionError", "Timeout"}

\* what requests.post(...) and response.json() of issue_resource_path can do
IssueOutcomes(k) ==
    {[raised |-> e] : e \in TransportErrors \cup {"JSONDecodeError"}}
    \cup {[value |-> [code |-> 200, resourcePath |-> p]] : p \in ResourcePaths(k)}
    \cup {[value |-> [code |-> 500]], [value |-> [message |-> "error"]],
          [value |-> [code |-> 500, resourcePath |-> <<47, 97, 98, 99>>]],
          [value |-> [code |-> 200]], [value |-> NotADict]}

\* what requests.options(...) can do
OptionsOutcomes ==
    {[raised |-> e] : e \in TransportErrors}
    \cup {[status_code |-> c] : c \in {200, 403, 500}}

\* what requests.post(...) of upload_file can do
PostOutcomes ==
    {[raised |-> e] : e \in TransportErrors}
    \cup {[status_code |-> c, text |-> t] :
            c \in {200, 502},
            t \in {"{\"code\": 200}",
                   "{\"code\": 416, \"message\": \"Filesize must be greater than 0\"}",
                   "<html>Bad Gateway</html>", ""}}

(***************************************************************************)
(* The runs.                                                               *)
(***************************************************************************)
InitCommon ==
    /\ kind \in {"image", "video"}
    /\ pil \in PilReadings(IF kind = "image" THEN Decoded(file_data).v ELSE <<>>)
    /\ resource_info = None
    /\ calls = <<>>
    /\ failure = "none"
    /\ status = None
    /\ uploader = None
    /\ response = None
    /\ result = None
    /\ outcome = "running"

\* main() of either client, before its first statement
Init ==
    /\ exists \in BOOLEAN
    /\ \E k \in {"image", "video"} :
          file_data \in {[pytype |-> "bytes", v |-> b] : b \in Payloads(k)} /\ kind = k
    /\ resource_path = None
    /\ pc = "start"
    /\ InitCommon

\* a call of upload_file by a client of the API class
InitUpload ==
    /\ exists = TRUE
    /\ \E k \in {"image", "video"} :
          /\ kind = k
          /\ file_data \in {[pytype |-> "bytes", v |-> b] : b \in Payloads(k)}
                           \cup {[pytype |-> "str", v |-> B64Encode(b)] : b \in Payloads(k)}
          /\ resource_path \in ResourcePaths(k)
    /\ pc = "upload"
    /\ InitCommon

\* main: the file is looked up
MainFileCheck ==
    /\ pc = "start"
    /\ IF ~exists
       THEN pc' = "done" /\ outcome' = "returned"
       ELSE pc' = "read" /\ UNCHANGED outcome
    /\ UNCHANGED <<kind, exists, file_data, pil, resource_info, resource_path,
                   calls, failure, status, uploader, response, result>>

\* main: the file is read, an empty file ends the run
MainRead ==
    /\ pc = "read"
    /\ IF Len(file_data.v) = 0
       THEN pc' = "done" /\ outcome' = "returned"
       ELSE pc' = "issue" /\ UNCHANGED outcome
    /\ UNCHANGED <<kind, exists, file_data, pil, resource_info, resource_path,
                   calls, failure, status, uploader, response, result>>

\* main: base64_data is built and issue_resource_path is called with it
MainIssueResourcePath ==
    /\ pc = "issue"
    /\ LET base64_data == B64Encode(file_data.v) IN
       IF ~B64Decode(base64_data).ok
       THEN /\ outcome' = "binascii.Error"
            /\ pc' = "done"
            /\ UNCHANGED <<calls, failure, resource_info>>
       ELSE /\ calls' = Append(calls, [op |-> "issue",
                                       json |-> IssueData(kind, FileName(kind),
                                                          base64_data)])
            /\ \E o \in IssueOutcomes(kind) :
                  IF "raised" \in DOMAIN o
                  THEN /\ outcome' = o.raised
                       /\ pc' = "done"
                       /\ failure' = IF o.raised \in TransportErrors
                                     THEN "issue" ELSE failure
                       /\ UNCHANGED resource_info
                  ELSE /\ resource_info' = o.value
                       /\ pc' = "check"
                       /\ UNCHANGED <<outcome, failure>>
    /\ UNCHANGED <<kind, exists, file_data, pil, resource_path, status,
                   uploader, response, result>>

\* main: the code of resource_info decides, resourcePath is read
MainCheckCode ==
    /\ pc = "check"
    /\ IF ~IsDict(resource_info)
       THEN pc' = "done" /\ outcome' = "AttributeError" /\ UNCHANGED resource_path
       ELSE IF ~PathAccepted(resource_info)
       THEN pc' = "done" /\ outcome' = "returned" /\ UNCHANGED resource_path
       ELSE IF "resourcePath" \notin DOMAIN resource_info
       THEN pc' = "done" /\ outcome' = "KeyError" /\ UNCHANGED resource_path
       ELSE /\ resource_path' = resource_info.resourcePath
            /\ pc' = "options"
            /\ UNCHANGED outcome
    /\ UNCHANGED <<kind, exists, file_data, pil, resource_info, calls, failure,
                   status, uploader, response, result>>

\* main: upload_file_options is called
MainUploadFileOptions ==
    /\ pc = "options"
    /\ calls' = Append(calls, [op |-> "options", url |-> resource_path])
    /\ \E o \in OptionsOutcomes :
          IF "raised" \in DOMAIN o
          THEN /\ outcome' = o.raised
               /\ pc' = "done"
               /\ failure' = "options"
               /\ UNCHANGED status
          ELSE /\ status' = o.status_code
               /\ pc' = "upload"
               /\ UNCHANGED <<outcome, failure>>
    /\ UNCHANGED <<kind, exists, file_data, pil, resource_info, resource_path,
                   uploader, response, result>>

\* upload_file ends before the request: the base64 text does not decode, the
\* payload is empty, or the image has a zero side
UploadFileEarly ==
    /\ pc = "upload"
    /\ LET dec == Decoded(file_data) IN
       IF ~dec.ok
       THEN outcome' = "binascii.Error" /\ UNCHANGED <<uploader, result>>
       ELSE /\ Rejected(kind, Uploader(kind, dec.v), pil)
            /\ uploader' = Uploader(kind, dec.v)
            /\ result' = [code |-> -1]
            /\ outcome' = "returned"
    /\ pc' = "done"
    /\ UNCHANGED <<kind, exists, file_data, pil, resource_info, resource_path,
                   calls, failure, status, response>>

\* upload_file sends the multipart request and returns what comes of it
UploadFilePost ==
    /\ pc = "upload"
    /\ Decoded(file_data).ok
    /\ LET up == Uploader(kind, Decoded(file_data).v) IN
          /\ ~Rejected(kind, up, pil)
          /\ uploader' = up
          /\ calls' = StoragePost(calls, UploadRequest(kind, resource_path, up, pil))
    /\ \E o \in PostOutcomes :
          IF "raised" \in DOMAIN o
          THEN /\ result' = [code |-> -1]
               /\ failure' = "post"
               /\ UNCHANGED response
          ELSE /\ response' = o
               /\ result' = UploadResult(o)
               /\ UNCHANGED failure
    /\ pc' = "done"
    /\ outcome' = "returned"
    /\ UNCHANGED <<kind, exists, file_data, pil, resource_info, resource_path,
                   status>>

Next ==
    \/ MainFileCheck
    \/ MainRead
    \/ MainIssueResourcePath
    \/ MainCheckCode
    \/ MainUploadFileOptions
    \/ UploadFileEarly
    \/ UploadFilePost

Spec == Init /\ [][Next]_vars

NextUpload ==
    \/ UploadFileEarly
    \/ UploadFilePost

SpecUpload == InitUpload /\ [][NextUpload]_vars

(***************************************************************************)
(* Observations of a run, used by the properties.                          *)
(***************************************************************************)
Issued(op) == {i \in 1..Len(calls) : calls[i].op = op}

Code200(info) == IsDict(info) /\ "code" \in DOMAIN info /\ info.code = 200

\* the number a decimal text denotes
RECURSIVE DecimalValue(_)
DecimalValue(t) ==
    IF t = <<>> THEN 0
    ELSE DecimalValue(SubSeq(t, 1, Len(t) - 1)) * 10 + (t[Len(t)] - 48)

\* the 0-based positions where sub occurs in data
Occurrences(data, sub) ==
    {i \in 0..(Len(data) - Len(sub)) : SubSeq(data, i + 1, i + Len(sub)) = sub}

\* "boundary=", "Content-Disposition", ': form-data; name="file"; filename="'
BoundaryKey == <<98, 111, 117, 110, 100, 97, 114, 121, 61>>
DispositionName ==
    <<67, 111, 110, 116, 101, 110, 116, 45, 68, 105, 115, 112, 111, 115, 105,
      116, 105, 111, 110>>
DispositionRest ==
    <<58, 32, 102, 111, 114, 109, 45, 100, 97, 116, 97, 59, 32, 110, 97, 109,
      101, 61, 34, 102, 105, 108, 101, 34, 59, 32, 102, 105, 108, 101, 110,
      97, 109, 101, 61, 34>>

\* the boundary token a request declares in its Content-Type header
DeclaredBoundary(c) ==
    LET h == c.headers.ContentType
        at == CHOOSE i \in Occurrences(h, BoundaryKey) : TRUE
    IN  SubSeq(h, at + Len(BoundaryKey) + 1, Len(h))

\* the bytes between filename=" and the quote that ends the first line of
\* the part's headers
DispositionFilename(c) ==
    LET line == DispositionName \o DispositionRest
        from == (CHOOSE i \in Occurrences(c.data, line) : TRUE) + Len(line)
        rest == SubSeq(c.data, from + 1, Len(c.data))
        stop == CHOOSE i \in Occurrences(rest, Quote \o CRLF) :
                    \A j \in Occurrences(rest, Quote \o CRLF) : i <= j
    IN  SubSeq(rest, 1, stop)

(***************************************************************************)
(* C1.  The preflight and the upload are attempted only after              *)
(* issue_resource_path returned a response whose code is 200; after any    *)
(* other response (another code, or no code) the run has stopped and       *)
(* neither the preflight nor upload_file is ever called.                   *)
(***************************************************************************)
C1_PathGate ==
    /\ (Issued("options") \cup Issued("post") # {} \/ uploader # None)
          => /\ Code200(resource_info)
             /\ \A i \in Issued("options") \cup Issued("post") :
                   \E j \in Issued("issue") : j < i
    /\ (resource_info # None /\ ~Code200(resource_info) /\ pc # "check")
          => /\ pc = "done"
             /\ Issued("options") = {} /\ Issued("post") = {}
             /\ uploader = None /\ result = None

C1_Witness ==
    /\ pc = "done" /\ outcome = "returned"
    /\ IsDict(resource_info) /\ "code" \in DOMAIN resource_info
    /\ resource_info.code = 500
    /\ "resourcePath" \in DOMAIN resource_info
    /\ Len(calls) = 1 /\ calls[1].op = "issue"

(***************************************************************************)
(* C2.  A payload whose media is unparsable (image dimensions (0, 0),      *)
(* video duration zero) aborts the pipeline before any network call: no    *)
(* path-issuance, preflight or upload request is issued in that run.       *)
(***************************************************************************)
Unparsable ==
    IF kind = "image" THEN Dimensions(pil) = <<0, 0>>
    ELSE GetMp4Duration(Decoded(file_data).v) = Zero

C2_UnparsableAbortsBeforeNetwork == Unparsable => calls = <<>>

(***************************************************************************)
(* C3.  upload_file's validation gate: a payload of length 0, or an image  *)
(* whose width or height is 0, gives the result {code: -1} and no storage  *)
(* POST; in every other case the storage POST is attempted exactly once.   *)
(***************************************************************************)
C3_ValidationGate ==
    (pc = "done" /\ Decoded(file_data).ok) =>
        LET width == IF pil.opened THEN pil.size[1] ELSE 0
            height == IF pil.opened THEN pil.size[2] ELSE 0
        IN  IF \/ Len(Decoded(file_data).v) = 0
               \/ kind = "image" /\ (width = 0 \/ height = 0)
            THEN result = [code |-> -1] /\ Issued("post") = {}
            ELSE Cardinality(Issued("post")) = 1 /\ Len(calls) = 1

C3_Witness ==
    /\ pc = "done" /\ kind = "image"
    /\ Len(Decoded(file_data).v) > 0
    /\ pil.opened /\ pil.size = <<10, 0>>
    /\ result = [code |-> -1] /\ calls = <<>>

(***************************************************************************)
(* C4.  Once path issuance returned code 200, no outcome of the preflight  *)
(* (status code or transport failure) aborts the run: a run that issued    *)
(* the preflight ends with upload_file called and returned.                *)
(***************************************************************************)
C4_PreflightNeverAborts ==
    (pc = "done" /\ Issued("options") # {}) =>
        (outcome = "returned" /\ uploader # None /\ result # None)

(***************************************************************************)
(* C5.  A transport failure at the path-issuance stage or at the upload    *)
(* stage is caught and surfaced as code -1: the run ends with that code    *)
(* and no exception escapes the stage.                                     *)
(***************************************************************************)
C5_TransportFailureIsMinusOne ==
    /\ failure = "issue" =>
          /\ outcome \notin TransportErrors
          /\ IsDict(resource_info) /\ "code" \in DOMAIN resource_info
          /\ resource_info.code = -1
    /\ failure = "post" =>
          /\ outcome = "returned"
          /\ result = [code |-> -1]

(***************************************************************************)
(* C6.  When the storage POST returns a response, upload_file returns the  *)
(* JSON-decoded body if the body decodes, and otherwise {code: s} with s   *)
(* the HTTP status code of the response: a malformed body yields neither   *)
(* code -1 nor an exception.                                               *)
(***************************************************************************)
C6_ResponseHandling ==
    response # None =>
        /\ outcome = "returned"
        /\ IF JsonLoads(response.text).ok
           THEN result = JsonLoads(response.text).value
           ELSE /\ DOMAIN result = {"code"}
                /\ result.code = response.status_code
                /\ result.code # -1

C6_Witness ==
    /\ response # None
    /\ ~JsonLoads(response.text).ok
    /\ response.status_code = 502
    /\ result = [code |-> 502]

(***************************************************************************)
(* C7.  _get_mp4_duration never raises; it gives 0 when the marker mvhd    *)
(* does not occur, when fewer than 24 bytes are available from the first   *)
(* occurrence of the marker, or when the timescale read is 0; otherwise    *)
(* it gives D / T, T the big-endian 32-bit value at offset +16 and D the   *)
(* one at offset +20 from the first occurrence of the marker.              *)
(***************************************************************************)
C7_Mp4Duration ==
    (kind = "video" /\ uploader # None) =>
        LET d == uploader.file_data
            marks == Occurrences(d, Mvhd)
            at == CHOOSE i \in marks : \A j \in marks : i <= j
            T == d[at + 17] * 16777216 + d[at + 18] * 65536
                 + d[at + 19] * 256 + d[at + 20]
            D == d[at + 21] * 16777216 + d[at + 22] * 65536
                 + d[at + 23] * 256 + d[at + 24]
        IN  /\ outcome = "returned"
            /\ IF marks = {} THEN uploader.duration = Zero
               ELSE IF Len(d) < at + 24 THEN uploader.duration = Zero
               ELSE IF T = 0 THEN uploader.duration = Zero
               ELSE /\ uploader.duration.den > 0
                    /\ uploader.duration.num * T = D * uploader.duration.den

C7_Witness ==
    /\ kind = "video" /\ uploader # None
    /\ Occurrences(uploader.file_data, Mvhd) # {}
    /\ uploader.duration = [num |-> 5, den |-> 2]

C9_MultipartBody ==
    \A i \in Issued("post") :
        LET body == calls[i].data
            opening == Dashes \o DeclaredBoundary(calls[i]) \o CRLF
            closing == CRLF \o Dashes \o DeclaredBoundary(calls[i]) \o Dashes
            heads == Occurrences(body, CRLF \o CRLF)
            blank == CHOOSE h \in heads : \A j \in heads : h <= j
        IN  /\ Len(body) >= Len(opening) + Len(closing)
            /\ SubSeq(body, 1, Len(opening)) = opening
            /\ SubSeq(body, Len(body) - Len(closing) + 1, Len(body)) = closing
            /\ Occurrences(body, DispositionName) = {Len(opening)}
            /\ Occurrences(body, DispositionName \o DispositionRest) = {Len(opening)}
            /\ heads # {}
            /\ SubSeq(body, blank + 5, Len(body) - Len(closing)) = uploader.file_data
            /\ DecimalValue(calls[i].headers.ContentLength) = Len(body)

C9_Witness ==
    /\ Issued("post") # {}
    /\ kind = "image"
    /\ uploader.file_data = <<137, 80>>
    /\ resource_path = <<47, 233, 46, 112, 110, 103>>

(***************************************************************************)
(* C10.  Each of the three external calls is issued at most once, in the   *)
(* order path issuance, preflight, upload; after a failure the run is      *)
(* over and its failed call is the last call.                              *)
(***************************************************************************)
C10_NoRetryStrictOrder ==
    /\ Len(calls) <= 3
    /\ \A i \in 1..Len(calls) : calls[i].op = <<"issue", "options", "post">>[i]
    /\ failure # "none" =>
          /\ pc = "done"
          /\ calls[Len(calls)].op = failure
    /\ (resource_info # None /\ pc # "check" /\ ~Code200(resource_info))
          => pc = "done" /\ Len(calls) = 1

C10_Witness ==
    /\ failure = "post"
    /\ Len(calls) = 3
    /\ pc = "done"

(***************************************************************************)
(* issue_resource_path called by a client of the API class, with the       *)
(* payload as bytes or as its base64 text.                                 *)
(***************************************************************************)
InitIssue ==
    /\ exists = TRUE
    /\ \E k \in {"image", "video"} :
          /\ kind = k
          /\ file_data \in {[pytype |-> "bytes", v |-> b] : b \in Payloads(k)}
                           \cup {[pytype |-> "str", v |-> B64Encode(b)] : b \in Payloads(k)}
    /\ resource_path = None
    /\ pc = "issue_resource_path"
    /\ InitCommon

\* issue_resource_path: bytes are base64-encoded, the body is built with the
\* size of the decoded text, the request is sent and its JSON returned
IssueResourcePath ==
    /\ pc = "issue_resource_path"
    /\ LET text == IF file_data.pytype = "bytes"
                   THEN B64Encode(file_data.v) ELSE file_data.v
       IN  IF ~B64Decode(text).ok
           THEN /\ outcome' = "binascii.Error"
                /\ UNCHANGED <<calls, failure, resource_info>>
           ELSE /\ calls' = Append(calls, [op |-> "issue",
                                           json |-> IssueData(kind, FileName(kind),
                                                              text)])
                /\ \E o \in IssueOutcomes(kind) :
                      IF "raised" \in DOMAIN o
                      THEN /\ outcome' = o.raised
                           /\ failure' = IF o.raised \in TransportErrors
                                         THEN "issue" ELSE failure
                           /\ UNCHANGED resource_info
                      ELSE /\ resource_info' = o.value
                           /\ outcome' = "returned"
                           /\ UNCHANGED failure
    /\ pc' = "done"
    /\ UNCHANGED <<kind, exists, file_data, pil, resource_path, status,
                   uploader, response, result>>

NextIssue == IssueResourcePath

SpecIssue == InitIssue /\ [][NextIssue]_vars

(***************************************************************************)
(* C11.  Whether the payload is passed to issue_resource_path as raw       *)
(* bytes or as its base64 text, the filesize field of the path-issuance    *)
(* request is the byte length of the original payload, for image and for   *)
(* video.                                                                  *)
(***************************************************************************)
C11_FilesizeRoundTrip ==
    \A b \in Payloads(kind) :
        (\/ file_data = [pytype |-> "bytes", v |-> b]
         \/ file_data = [pytype |-> "str", v |-> B64Encode(b)])
        => /\ pc = "done" => Issued("issue") = {1} /\ outcome # "binascii.Error"
           /\ \A i \in Issued("issue") : calls[i].json.filesize = Len(b)

C11_Witness ==
    /\ file_data.pytype = "str"
    /\ Len(file_data.v) = 4
    /\ file_data.v[3] # B64Pad /\ file_data.v[4] = B64Pad
    /\ Issued("issue") = {1}
    /\ calls[1].json.filesize = 2

=============================================================================
